---- MODULE Spec2Model ----
(***************************************************************************)
(* lunar_tools/fontrender.py : add_text_to_image                           *)
(*                                                                         *)
(* One call of add_text_to_image as a state machine.  `args` holds the     *)
(* arguments of the call (never assigned after entry); the other variables *)
(* are the locals of the function, `pc` is the position in its body, and   *)
(* `calls` is the set of library calls the function has made so far.       *)
(*                                                                         *)
(* Numbers.  Pixel widths and sizes are integers.  The fractions min_width,*)
(* max_width and y_pos are numerators over the common denominator FracDen, *)
(* so scaled_min_width and scaled_max_width are kept in units of 1/FracDen *)
(* pixel and a measured width is multiplied by FracDen before it is        *)
(* compared with them.                                                     *)
(***************************************************************************)
EXTENDS Integers, Sequences, FiniteSets, TLC

VARIABLES args, pc, image, width, height, scaled_min_width, scaled_max_width,
          os_name, font_extension, font_path, path_exists, font_size, font,
          text_width, x, y, err, result, calls

vars == <<args, pc, image, width, height, scaled_min_width, scaled_max_width,
          os_name, font_extension, font_path, path_exists, font_size, font,
          text_width, x, y, err, result, calls>>

(* ------------------------------ bounds --------------------------------- *)

\* image widths and heights range over 1..MaxDim
MaxDim == 3

\* the initial font size ranges over 1..MaxFont
MaxFont == 3

\* min_width, max_width and y_pos range over k/FracDen, k in 0..FracDen
FracDen == 2

(* ------------------------------ inputs --------------------------------- *)

Dims == 1..MaxDim

Sizes == Dims \X Dims

\* the three supported kinds of img_input, and a plain number
ImgInputs ==
    [kind : {"tuple", "ndarray", "Image"}, size : Sizes]
        \cup {[kind |-> "number", size |-> <<0, 0>>]}

\* a text is a sequence of glyphs; "i" is narrow, "m" is wide
Texts == {<< >>, <<"i">>, <<"m", "i">>}

Aligns == {"left", "center", "right", "justify"}

FontTypes == {"None", "italic", "bold", "bold/italic"}

FontNames == {"Arial"}

FontColors == {<<0, 0, 0>>}

Fractions == 0..FracDen

FontSizes == 1..MaxFont

\* what platform.system() can answer; "Java" stands for any other answer
OSNames == {"Darwin", "Linux", "Windows", "Java"}

(* --------------------------- library calls ----------------------------- *)

\* locals that have not been assigned yet
NoImage == [size |-> <<0, 0>>, origin |-> "none", ink |-> << >>]

NoFont == [path |-> "", size |-> 0]

\* Image.new / Image.fromarray / the caller's own image
NewImage(size) == [size |-> size, origin |-> "new", ink |-> << >>]

FromArray(size) == [size |-> size, origin |-> "array", ink |-> << >>]

CallerImage(size) == [size |-> size, origin |-> "caller", ink |-> << >>]

\* ImageFont.truetype(path, size) raises for a size that is not positive
\* (ValueError in current Pillow, a FreeType error in older releases)
TrueTypeLoads(size) == size >= 1

TrueType(path, size) == [path |-> path, size |-> size]

\* advance of a glyph, in pixels per unit of font size
Advance(glyph) == IF glyph = "m" THEN 2 ELSE 1

RECURSIVE SumAdvance(_)
SumAdvance(t) == IF t = << >> THEN 0 ELSE Advance(Head(t)) + SumAdvance(Tail(t))

\* draw.textlength(text, font=font): proportional to the font size
TextLength(t, f) == f.size * SumAdvance(t)

\* draw.text(xy, text, font, fill) on an image
DrawText(im, xy, t, f, fill) ==
    [im EXCEPT !.ink = Append(@, [xy |-> xy, text |-> t, font |-> f, fill |-> fill])]

(* ------------------------- pure parts of the body ---------------------- *)

\* variant: the final else takes img_input as an image instead of raising
SupportedInputAny(img_input) == TRUE

\* the isinstance chain: tuple, np.ndarray or Image.Image
SupportedInput(img_input) == img_input.kind \in {"tuple", "ndarray", "Image"}

\* variant: the final else is taken as 'right' instead of raising
ValidAlignAny(al) == TRUE

\* the if/elif chain on align reaches a branch other than the final else
ValidAlign(al) == al \in {"left", "center", "right"}

\* variant: the two style suffixes are exchanged
FontExtensionSwapped(font_type) ==
    IF font_type = "italic" THEN "bd.ttf"
    ELSE IF font_type = "bold" THEN "i.ttf"
    ELSE ".ttf"

FontExtension(font_type) ==
    IF font_type = "italic" THEN "i.ttf"
    ELSE IF font_type = "bold" THEN "bd.ttf"
    ELSE ".ttf"

SupportedOS == {"Darwin", "Linux", "Windows"}

FontDir(os) ==
    IF os = "Darwin" THEN "/System/Library/Fonts/"
    ELSE IF os = "Linux" THEN "/usr/share/fonts/truetype/"
    ELSE "C:\\Windows\\Fonts\\"

FontPath(os, font_name, ext) == FontDir(os) \o font_name \o ext

\* text_width < scaled_min_width
TooNarrow(tw, smin) == tw * FracDen < smin

\* text_width > scaled_max_width
TooWide(tw, smax) == tw * FracDen > smax

\* variant: the loop only looks at the lower limit
LoopCondNarrowOnly(tw, smin, smax, fs, h) == TooNarrow(tw, smin) /\ fs < h

\* variant: the bound on the font size is off by one
LoopCondInclusive(tw, smin, smax, fs, h) ==
    (TooNarrow(tw, smin) \/ TooWide(tw, smax)) /\ fs <= h

\* the condition of the while loop
LoopCond(tw, smin, smax, fs, h) ==
    (TooNarrow(tw, smin) \/ TooWide(tw, smax)) /\ fs < h

\* variant: the two branches of the loop body are exchanged
NextFontSizeSwapped(tw, smin, fs) == IF TooNarrow(tw, smin) THEN fs - 1 ELSE fs + 1

\* the if/else of the loop body
NextFontSize(tw, smin, fs) == IF TooNarrow(tw, smin) THEN fs + 1 ELSE fs - 1

\* variant: division that rounds towards zero
TruncDiv(a, b) == IF a >= 0 THEN a \div b ELSE -((-a) \div b)

\* Python's // : rounds towards minus infinity
FloorDiv(a, b) == a \div b

\* variant: conversion that rounds towards minus infinity
IntFloor(a, b) == a \div b

\* Python's int() of a quotient a/b, b > 0: rounds towards zero
IntTrunc(a, b) == IF a >= 0 THEN a \div b ELSE -((-a) \div b)

AlignX(al, w, tw) ==
    IF al = "left" THEN 0
    ELSE IF al = "center" THEN FloorDiv(w - tw, 2)
    ELSE w - tw

TextY(y_pos, h, text_height) == IntTrunc(y_pos * (h - text_height), FracDen)

(* ------------------------------- Init ---------------------------------- *)

Init ==
    /\ args \in [img_input : ImgInputs, text : Texts, align : Aligns,
                 y_pos : Fractions, font_name : FontNames, font_size : FontSizes,
                 min_width : Fractions, max_width : Fractions,
                 font_color : FontColors, font_type : FontTypes]
    /\ pc = "resolve_image"
    /\ image = NoImage
    /\ width = 0
    /\ height = 0
    /\ scaled_min_width = 0
    /\ scaled_max_width = 0
    /\ os_name = ""
    /\ font_extension = ""
    /\ font_path = ""
    /\ path_exists = FALSE
    /\ font_size = args.font_size
    /\ font = NoFont
    /\ text_width = 0
    /\ x = 0
    /\ y = 0
    /\ err = "none"
    /\ result = NoImage
    /\ calls = {}

(* ------------------------------ actions -------------------------------- *)

Raise(e) == pc' = "error" /\ err' = e

\* lines 45-58: image from img_input, its size, the scaled width limits
ResolveImage ==
    /\ pc = "resolve_image"
    /\ IF SupportedInput(args.img_input)
       THEN /\ image' = (IF args.img_input.kind = "tuple"
                           THEN NewImage(args.img_input.size)
                         ELSE IF args.img_input.kind = "ndarray"
                           THEN FromArray(args.img_input.size)
                         ELSE CallerImage(args.img_input.size))
            /\ width' = args.img_input.size[1]
            /\ height' = args.img_input.size[2]
            /\ scaled_min_width' = args.min_width * args.img_input.size[1]
            /\ scaled_max_width' = args.max_width * args.img_input.size[1]
            /\ calls' = calls \cup {"ImageDraw.Draw"}
            /\ pc' = "resolve_font"
            /\ UNCHANGED err
       ELSE /\ Raise("img_input")
            /\ UNCHANGED <<image, width, height, scaled_min_width,
                           scaled_max_width, calls>>
    /\ UNCHANGED <<args, os_name, font_extension, font_path, path_exists,
                   font_size, font, text_width, x, y, result>>

\* lines 61-77: font file path from the OS and the style, and its existence
ResolveFont ==
    /\ pc = "resolve_font"
    /\ \E os \in OSNames, exists \in BOOLEAN :
         /\ os_name' = os
         /\ font_extension' = FontExtension(args.font_type)
         /\ IF os \notin SupportedOS
            THEN /\ Raise("os")
                 /\ calls' = calls \cup {"platform.system"}
                 /\ UNCHANGED <<font_path, path_exists>>
            ELSE /\ font_path' = FontPath(os, args.font_name,
                                          FontExtension(args.font_type))
                 /\ path_exists' = exists
                 /\ calls' = calls \cup {"platform.system", "os.path.exists"}
                 /\ IF exists
                    THEN pc' = "load_font" /\ UNCHANGED err
                    ELSE Raise("font_file")
    /\ UNCHANGED <<args, image, width, height, scaled_min_width,
                   scaled_max_width, font_size, font, text_width, x, y, result>>

\* lines 79-80: load the font at the initial size and measure the text
LoadFont ==
    /\ pc = "load_font"
    /\ IF TrueTypeLoads(font_size)
       THEN /\ font' = TrueType(font_path, font_size)
            /\ text_width' = TextLength(args.text, TrueType(font_path, font_size))
            /\ calls' = calls \cup {"ImageFont.truetype", "draw.textlength"}
            /\ pc' = "search"
            /\ UNCHANGED err
       ELSE /\ Raise("font_load")
            /\ calls' = calls \cup {"ImageFont.truetype"}
            /\ UNCHANGED <<font, text_width>>
    /\ UNCHANGED <<args, image, width, height, scaled_min_width,
                   scaled_max_width, os_name, font_extension, font_path,
                   path_exists, font_size, x, y, result>>

\* lines 83-90: one iteration of the font-fit search
SearchStep ==
    /\ pc = "search"
    /\ LoopCond(text_width, scaled_min_width, scaled_max_width, font_size, height)
    /\ font_size' = NextFontSize(text_width, scaled_min_width, font_size)
    /\ IF TrueTypeLoads(font_size')
       THEN /\ font' = TrueType(font_path, font_size')
            /\ text_width' = TextLength(args.text, TrueType(font_path, font_size'))
            /\ pc' = "search"
            /\ UNCHANGED err
       ELSE /\ Raise("font_load")
            /\ UNCHANGED <<font, text_width>>
    /\ UNCHANGED <<args, image, width, height, scaled_min_width,
                   scaled_max_width, os_name, font_extension, font_path,
                   path_exists, x, y, result, calls>>

\* line 83: the loop condition is false
SearchExit ==
    /\ pc = "search"
    /\ ~LoopCond(text_width, scaled_min_width, scaled_max_width, font_size, height)
    /\ pc' = "align"
    /\ UNCHANGED <<args, image, width, height, scaled_min_width,
                   scaled_max_width, os_name, font_extension, font_path,
                   path_exists, font_size, font, text_width, x, y, err, result, calls>>

\* lines 93-101: horizontal offset from the alignment
Align ==
    /\ pc = "align"
    /\ IF ValidAlign(args.align)
       THEN /\ x' = AlignX(args.align, width, text_width)
            /\ pc' = "draw"
            /\ UNCHANGED err
       ELSE /\ Raise("align")
            /\ UNCHANGED x
    /\ UNCHANGED <<args, image, width, height, scaled_min_width,
                   scaled_max_width, os_name, font_extension, font_path,
                   path_exists, font_size, font, text_width, y, result, calls>>

\* lines 103-105: vertical offset, then the text is drawn
Draw ==
    /\ pc = "draw"
    /\ y' = TextY(args.y_pos, height, font_size)
    /\ image' = DrawText(image, <<x, TextY(args.y_pos, height, font_size)>>,
                         args.text, font, args.font_color)
    /\ calls' = calls \cup {"draw.text"}
    /\ pc' = "return"
    /\ UNCHANGED <<args, width, height, scaled_min_width, scaled_max_width,
                   os_name, font_extension, font_path, path_exists, font_size,
                   font, text_width, x, err, result>>

\* line 107
Return ==
    /\ pc = "return"
    /\ result' = image
    /\ pc' = "done"
    /\ UNCHANGED <<args, image, width, height, scaled_min_width,
                   scaled_max_width, os_name, font_extension, font_path,
                   path_exists, font_size, font, text_width, x, y, err, calls>>

Next ==
    \/ ResolveImage
    \/ ResolveFont
    \/ LoadFont
    \/ SearchStep
    \/ SearchExit
    \/ Align
    \/ Draw
    \/ Return

Spec == Init /\ [][Next]_vars

\* the interpreter runs the body to its end: a step that can be taken is taken
FairSpec == Spec /\ WF_vars(Next)

(* ------------------------------ properties ----------------------------- *)

\* the call has left the font-fit search through the false loop condition
SearchEnded ==
    \/ pc \in {"align", "draw", "return", "done"}
    \/ pc = "error" /\ err = "align"

\* min_width * W <= text_width <= max_width * W, from the arguments
WidthInRange ==
    /\ args.min_width * width <= text_width * FracDen
    /\ text_width * FracDen <= args.max_width * width

\* the width of the text at the current font size
MeasuredAtFontSize ==
    /\ font = [path |-> font_path, size |-> font_size]
    /\ text_width = font_size * SumAdvance(args.text)

Max(a, b) == IF a >= b THEN a ELSE b

\* C1: every call that reaches the font-fit search leaves it again: the loop
\* ends after finitely many iterations.
C1_SearchTerminates == (pc = "search") ~> (pc # "search")

\* C2: the font size handed to the font loader is always at least 1, and no
\* error is raised from inside the search loop.
C2_SearchCannotFail == font_size >= 1 /\ err # "font_load"

\* C3: once the search has ended, the width measured at the final font size
\* lies within [min_width*W, max_width*W], or the final font size is >= H.
C3_SearchPostcondition ==
    SearchEnded => /\ MeasuredAtFontSize
                   /\ WidthInRange \/ font_size >= height

\* C3 witness: the loop has run, and stopped because the width came in range
C3_Witness ==
    /\ pc = "align"
    /\ font_size # args.font_size
    /\ WidthInRange
    /\ font_size < height

\* C4: x is 0 for 'left', W - text_width for 'right', and the floor of
\* (W - text_width)/2 for 'center', with text_width measured at the final
\* font size, also when the text is wider than the image.
C4_HorizontalOffset ==
    pc \in {"draw", "return", "done"} =>
        /\ MeasuredAtFontSize
        /\ args.align = "left" => x = 0
        /\ args.align = "right" => x + text_width = width
        /\ args.align = "center" =>
              2 * x <= width - text_width /\ width - text_width < 2 * x + 2

\* C4 witness: centred text wider than the image by an odd number of pixels
C4_Witness ==
    /\ pc = "done"
    /\ args.align = "center"
    /\ text_width > width
    /\ (text_width - width) % 2 = 1

\* C5: an img_input that is no tuple, array or image raises at once: nothing
\* else has been computed, called or drawn when the error is raised.
C5_UnsupportedInputRaisesFirst ==
    args.img_input.kind \notin {"tuple", "ndarray", "Image"} =>
        /\ pc = "resolve_image" \/ (pc = "error" /\ err = "img_input")
        /\ calls = {}
        /\ image = NoImage
        /\ font_path = ""
        /\ font = NoFont
        /\ result = NoImage

\* C5 witness: the error is raised although the align argument is invalid too
C5_Witness ==
    /\ pc = "error"
    /\ err = "img_input"
    /\ args.align = "justify"
    /\ args.font_type = "bold"

SuffixOf(font_type) ==
    CASE font_type = "None" -> ".ttf"
      [] font_type = "italic" -> "i.ttf"
      [] font_type = "bold" -> "bd.ttf"
      [] font_type = "bold/italic" -> ".ttf"

\* the base directory the specification gives for each OS
BaseOf(os) ==
    CASE os = "Darwin" -> "/System/Library/Fonts/"
      [] os = "Linux" -> "/usr/share/fonts/truetype/"
      [] os = "Windows" -> "C:\\Windows\\Fonts\\"

C9_VerticalOffset ==
    pc \in {"return", "done"} =>
        /\ LET v == args.y_pos * (height - font_size)
           IN  IF v >= 0
               THEN FracDen * y <= v /\ v < FracDen * y + FracDen
               ELSE FracDen * y >= v /\ v > FracDen * y - FracDen
        /\ image.ink = << [xy |-> <<x, y>>, text |-> args.text,
                           font |-> [path |-> font_path, size |-> font_size],
                           fill |-> args.font_color] >>

\* C9 witness: the search changed the size, and y differs from the offset the
\* initial size would give
C9_Witness ==
    /\ pc = "done"
    /\ font_size # args.font_size
    /\ y # TextY(args.y_pos, height, args.font_size)

\* C10: the font size never exceeds max(initial font size, H), and a size
\* above the initial one never exceeds H.
C10_FontSizeBounded ==
    /\ font_size <= Max(args.font_size, args.img_input.size[2])
    /\ font_size > args.font_size => font_size <= height

\* C10 witness: the search stopped at the bound H with the width out of range
C10_Witness ==
    /\ pc = "align"
    /\ font_size > args.font_size
    /\ font_size = height
    /\ ~WidthInRange

====
